---- MODULE Spec2Model ----
(***************************************************************************)
(* The Dashboard component of utmdash (src/components/Dashboard.tsx and    *)
(* its near-duplicate src/unnamed/part_000) as a state machine.            *)
(*                                                                         *)
(* A JavaScript string is a tuple of one-character strings, so that        *)
(* toLowerCase, includes, String(), Number() and the default sort order    *)
(* are computed and not assumed.  The character u-acute is written         *)
(* "u_acute".  A cell of a row is a record [t, n, s]: t is the JavaScript  *)
(* type ("undefined", "number", "string"), n the number, s the string.     *)
(* Number() of a cell is such a record too, with t = "nan" for NaN.        *)
(* Amounts are integers; the KPIs are exact rationals [num, den].          *)
(***************************************************************************)
EXTENDS Integers, Sequences, FiniteSets, TLC

\* ------------------------------------------------------------------ strings

LowerChars == <<"a", "b", "c", "d", "e", "f", "g", "h", "i", "j", "k", "l", "m", "n", "o", "p", "q", "r", "s", "t", "u", "v", "w", "x", "y", "z">>
DigitChars == <<"0", "1", "2", "3", "4", "5", "6", "7", "8", "9">>

SeqIndex(seq, x) == CHOOSE i \in 1..Len(seq) : seq[i] = x

InSeq(seq, x) == \E i \in 1..Len(seq) : seq[i] = x

\* The UTF-16 code unit of each character of the model
CharCodes ==
    (" " :> 32) @@ ("(" :> 40) @@ (")" :> 41) @@ ("+" :> 43) @@ ("-" :> 45) @@
      ("/" :> 47) @@ ("0" :> 48) @@ ("1" :> 49) @@ ("2" :> 50) @@
      ("3" :> 51) @@ ("4" :> 52) @@ ("5" :> 53) @@ ("6" :> 54) @@
      ("7" :> 55) @@ ("8" :> 56) @@ ("9" :> 57) @@ ("A" :> 65) @@
      ("B" :> 66) @@ ("C" :> 67) @@ ("D" :> 68) @@ ("E" :> 69) @@
      ("F" :> 70) @@ ("G" :> 71) @@ ("H" :> 72) @@ ("I" :> 73) @@
      ("J" :> 74) @@ ("K" :> 75) @@ ("L" :> 76) @@ ("M" :> 77) @@
      ("N" :> 78) @@ ("O" :> 79) @@ ("P" :> 80) @@ ("Q" :> 81) @@
      ("R" :> 82) @@ ("S" :> 83) @@ ("T" :> 84) @@ ("U" :> 85) @@
      ("V" :> 86) @@ ("W" :> 87) @@ ("X" :> 88) @@ ("Y" :> 89) @@
      ("Z" :> 90) @@ ("a" :> 97) @@ ("b" :> 98) @@ ("c" :> 99) @@
      ("d" :> 100) @@ ("e" :> 101) @@ ("f" :> 102) @@ ("g" :> 103) @@
      ("h" :> 104) @@ ("i" :> 105) @@ ("j" :> 106) @@ ("k" :> 107) @@
      ("l" :> 108) @@ ("m" :> 109) @@ ("n" :> 110) @@ ("o" :> 111) @@
      ("p" :> 112) @@ ("q" :> 113) @@ ("r" :> 114) @@ ("s" :> 115) @@
      ("t" :> 116) @@ ("u" :> 117) @@ ("v" :> 118) @@ ("w" :> 119) @@
      ("x" :> 120) @@ ("y" :> 121) @@ ("z" :> 122) @@ ("u_acute" :> 250)

CharCode(c) == CharCodes[c]

\* The lower-case form of each upper-case letter
LowerMap ==
    [A |-> "a", B |-> "b", C |-> "c", D |-> "d", E |-> "e", F |-> "f",
      G |-> "g", H |-> "h", I |-> "i", J |-> "j", K |-> "k", L |-> "l",
      M |-> "m", N |-> "n", O |-> "o", P |-> "p", Q |-> "q", R |-> "r",
      S |-> "s", T |-> "t", U |-> "u", V |-> "v", W |-> "w", X |-> "x",
      Y |-> "y", Z |-> "z"]

toLowerChar(c) == IF c \in DOMAIN LowerMap THEN LowerMap[c] ELSE c

\* String.prototype.toLowerCase
toLowerCase(s) == [i \in 1..Len(s) |-> toLowerChar(s[i])]

\* s.startsWith(sub, at - 1), compared one code unit at a time
RECURSIVE MatchAt(_, _, _, _)
MatchAt(s, sub, at, k) ==
    IF k > Len(sub) THEN TRUE
    ELSE IF at + k - 1 > Len(s) THEN FALSE
    ELSE IF s[at + k - 1] # sub[k] THEN FALSE
    ELSE MatchAt(s, sub, at, k + 1)

RECURSIVE IndexOfFrom(_, _, _)
IndexOfFrom(s, sub, at) ==
    IF at + Len(sub) - 1 > Len(s) THEN 0
    ELSE IF MatchAt(s, sub, at, 1) THEN at
    ELSE IndexOfFrom(s, sub, at + 1)

\* String.prototype.includes
includes(s, sub) == IndexOfFrom(s, sub, 1) # 0

\* The default comparison of Array.prototype.sort on strings: a < b by code units.
RECURSIVE StrLessFrom(_, _, _)
StrLessFrom(a, b, i) ==
    IF i > Len(b) THEN FALSE
    ELSE IF i > Len(a) THEN TRUE
    ELSE IF a[i] # b[i] THEN CharCode(a[i]) < CharCode(b[i])
    ELSE StrLessFrom(a, b, i + 1)

StrLess(a, b) == StrLessFrom(a, b, 1)

\* ------------------------------------------------------------------- values

Undefined == [t |-> "undefined", n |-> 0, s |-> <<>>]
NaN == [t |-> "nan", n |-> 0, s |-> <<>>]
Num(x) == [t |-> "number", n |-> x, s |-> <<>>]
Str(x) == [t |-> "string", n |-> 0, s |-> x]

\* row[key]: undefined when the row has no such field
Get(row, key) == IF key \in DOMAIN row THEN row[key] ELSE Undefined

RECURSIVE NatToString(_)
NatToString(x) ==
    IF x < 10 THEN <<DigitChars[x + 1]>>
    ELSE NatToString(x \div 10) \o <<DigitChars[(x % 10) + 1]>>

\* String(v)
String(v) ==
    CASE v.t = "undefined" -> <<"u", "n", "d", "e", "f", "i", "n", "e", "d">>
      [] v.t = "nan" -> <<"N", "a", "N">>
      [] v.t = "number" -> IF v.n < 0 THEN <<"-">> \o NatToString(-v.n) ELSE NatToString(v.n)
      [] OTHER -> v.s

\* String.prototype.trim, for the space character
RECURSIVE TrimLeft(_)
TrimLeft(s) == IF s # <<>> /\ Head(s) = " " THEN TrimLeft(Tail(s)) ELSE s

RECURSIVE TrimRight(_)
TrimRight(s) ==
    IF s # <<>> /\ s[Len(s)] = " " THEN TrimRight(SubSeq(s, 1, Len(s) - 1)) ELSE s

IsDigits(s) == s # <<>> /\ \A i \in 1..Len(s) : InSeq(DigitChars, s[i])

RECURSIVE DigitsValue(_)
DigitsValue(s) ==
    IF s = <<>> THEN 0
    ELSE 10 * DigitsValue(SubSeq(s, 1, Len(s) - 1)) + (SeqIndex(DigitChars, s[Len(s)]) - 1)

\* Number(string): StringToNumber for whitespace, a sign and decimal digits.
\* Every other text of the model's alphabet is NaN, as it is in JavaScript
\* (the alphabet has no ".", and the datasets hold no "Infinity", exponent or
\* radix-prefixed text).
StringToNumber(str) ==
    LET t == TrimRight(TrimLeft(str)) IN
    IF t = <<>> THEN Num(0)
    ELSE IF IsDigits(t) THEN Num(DigitsValue(t))
    ELSE IF Head(t) = "-" /\ IsDigits(Tail(t)) THEN Num(-DigitsValue(Tail(t)))
    ELSE IF Head(t) = "+" /\ IsDigits(Tail(t)) THEN Num(DigitsValue(Tail(t)))
    ELSE NaN

\* Number(v)
Number(v) ==
    CASE v.t = "undefined" -> NaN
      [] v.t = "string" -> StringToNumber(v.s)
      [] OTHER -> v

\* isNaN(x) for x a number
isNaN(x) == x.t = "nan"

\* Number(v) || 0, as an integer: NaN and 0 are falsy
NumberOrZero(v) == IF isNaN(Number(v)) THEN 0 ELSE Number(v).n

\* ---------------------------------------------------------- exact arithmetic

Abs(x) == IF x < 0 THEN -x ELSE x

RECURSIVE GCD(_, _)
GCD(a, b) == IF b = 0 THEN a ELSE GCD(b, a % b)

\* The number num/den in lowest terms with a positive denominator
Rat(num, den) ==
    LET g == GCD(Abs(num), Abs(den))
        sgn == IF den < 0 THEN -1 ELSE 1
    IN [num |-> sgn * (num \div g), den |-> sgn * (den \div g)]

RatInt(x) == Rat(x, 1)
RatSub(a, b) == Rat(a.num * b.den - b.num * a.den, a.den * b.den)
RatMul(a, b) == Rat(a.num * b.num, a.den * b.den)
RatDiv(a, b) == Rat(a.num * b.den, a.den * b.num)

\* The literal 0.06 of stats
TaxRate == Rat(6, 100)

\* ------------------------------------------------------- column classifier

\* keys.some(k => h.toLowerCase() === k.toLowerCase()
\*                || h.toLowerCase().includes(k.toLowerCase()))
RECURSIVE someKey(_, _, _)
someKey(h, keys, i) ==
    IF i > Len(keys) THEN FALSE
    ELSE IF toLowerCase(h) = toLowerCase(keys[i]) THEN TRUE
    ELSE IF includes(toLowerCase(h), toLowerCase(keys[i])) THEN TRUE
    ELSE someKey(h, keys, i + 1)

RECURSIVE findFrom(_, _, _)
findFrom(headers, keys, i) ==
    IF i > Len(headers) THEN Undefined
    ELSE IF someKey(headers[i], keys, 1) THEN Str(headers[i])
    ELSE findFrom(headers, keys, i + 1)

\* A classifier that scans the keywords first and the headers second, and so
\* returns the header of the highest-priority keyword that matches
RECURSIVE findByKeyFrom(_, _, _)
findByKeyFrom(headers, keys, j) ==
    IF j > Len(keys) THEN Undefined
    ELSE IF findFrom(headers, <<keys[j]>>, 1) # Undefined
         THEN findFrom(headers, <<keys[j]>>, 1)
    ELSE findByKeyFrom(headers, keys, j + 1)

findHeaderKeyFirst(headers, keys) == findByKeyFrom(headers, keys, 1)

\* data.headers.find(h => keys.some(...)): a string cell, or Undefined
findHeader(headers, keys) == findFrom(headers, keys, 1)

KeysFaturamento == <<<<"f", "a", "t", "u", "r", "a", "m", "e", "n", "t", "o">>, <<"r", "e", "c", "e", "i", "t", "a">>, <<"f", "a", "t", "u", "r", "a", "d", "o">>>>
KeysGastos == <<<<"g", "a", "s", "t", "o", "s">>, <<"g", "a", "s", "t", "o">>, <<"c", "u", "s", "t", "o">>, <<"i", "n", "v", "e", "s", "t", "i", "m", "e", "n", "t", "o">>, <<"s", "p", "e", "n", "d">>>>
KeysRoas == <<<<"r", "o", "a", "s">>>>
KeysData == <<<<"d", "a", "t", "a">>, <<"p", "e", "r", "i", "o", "d", "o">>>>
KeysAnuncio == <<<<"n", "o", "m", "e", " ", "d", "o", " ", "a", "d">>, <<"a", "n", "u_acute", "n", "c", "i", "o">>, <<"a", "d", " ", "n", "a", "m", "e">>>>

colFaturamento(d) == findHeader(d.headers, KeysFaturamento)
colGastos(d) == findHeader(d.headers, KeysGastos)
colRoas(d) == findHeader(d.headers, KeysRoas)
colData(d) == findHeader(d.headers, KeysData)
colAnuncio(d) == findHeader(d.headers, KeysAnuncio)

\* col || '': the key the KPI loop reads
KeyOrEmpty(col) == IF col.t = "string" /\ col.s # <<>> THEN col.s ELSE <<>>

FilterTopics ==
    <<<<"d", "a", "t", "a">>, <<"n", "o", "m", "e", " ", "d", "o", " ", "a", "d">>, <<"b", "m", "-", "c", "a", "-", "p", "f", " ", "(", "t", "e", "s", "t", "e", ")">>, <<"s", "t", "a", "t", "u", "s">>, <<"c", "a", "m", "p", "a", "n", "h", "a">>, <<"a", "d", " ", "s", "e", "t">>>>

\* data.headers.filter(h => [...].some(t => h.toLowerCase().includes(t)))
filterableColumns(d) ==
    LET Keep(h) == \E i \in 1..Len(FilterTopics) : includes(toLowerCase(h), FilterTopics[i])
    IN SelectSeq(d.headers, Keep)

\* data.types[h]
TypeOf(d, h) == IF h \in DOMAIN d.types THEN d.types[h] ELSE "undefined"

categoricalHeaders(d) ==
    LET Keep(h) == TypeOf(d, h) = "string" /\ ~includes(toLowerCase(h), <<"i", "d">>)
    IN SelectSeq(d.headers, Keep)

metricHeaders(d) ==
    LET Keep(h) == TypeOf(d, h) = "number" /\ ~includes(toLowerCase(h), <<"i", "d">>)
    IN SelectSeq(d.headers, Keep)

\* ------------------------------------------------------------ unique values

\* Array.from(new Set(values)): the first occurrence of each value, in order
RECURSIVE Dedup(_)
Dedup(seq) ==
    IF seq = <<>> THEN <<>>
    ELSE LET init == Dedup(SubSeq(seq, 1, Len(seq) - 1))
             last == seq[Len(seq)]
         IN IF InSeq(init, last) THEN init ELSE Append(init, last)

RECURSIVE InsertSorted(_, _)
InsertSorted(sorted, x) ==
    IF sorted = <<>> THEN <<x>>
    ELSE IF StrLess(x, Head(sorted)) THEN <<x>> \o sorted
    ELSE <<Head(sorted)>> \o InsertSorted(Tail(sorted), x)

\* vals.sort(): ascending by code units
RECURSIVE SortStrings(_)
SortStrings(seq) ==
    IF seq = <<>> THEN <<>>
    ELSE InsertSorted(SortStrings(SubSeq(seq, 1, Len(seq) - 1)), seq[Len(seq)])

\* r[col] ?? ''
OrEmptyString(v) == IF v.t = "undefined" THEN Str(<<>>) ELSE v

\* uniqueValuesMap[col]
uniqueValues(d, col) ==
    LET all == [i \in 1..Len(d.rows) |-> String(OrEmptyString(Get(d.rows[i], col)))]
        NonEmpty(v) == v # <<>>
    IN SortStrings(Dedup(SelectSeq(all, NonEmpty)))

uniqueValuesMap(d) ==
    LET cols == filterableColumns(d)
    IN [col \in {cols[i] : i \in 1..Len(cols)} |-> uniqueValues(d, col)]

\* ------------------------------------------------------------- filter state

\* The filters object is a function from its keys to arrays of strings.
NoFilters == <<>>

\* An updater that forgets the spread of prev: prev => ({ [column]: updated })
toggleFilterDroppingOthers(prev, column, value) ==
    LET current == IF column \in DOMAIN prev THEN prev[column] ELSE <<>>
        Other(v) == v # value
        updated == IF InSeq(current, value) THEN SelectSeq(current, Other)
                   ELSE Append(current, value)
    IN [c \in {column} |-> updated]

\* An updater that adds the value whether or not it is selected
toggleFilterAlwaysAdds(prev, column, value) ==
    LET current == IF column \in DOMAIN prev THEN prev[column] ELSE <<>>
    IN [c \in (DOMAIN prev) \cup {column} |->
          IF c = column THEN Append(current, value) ELSE prev[c]]

\* toggleFilter's state updater: prev => ({ ...prev, [column]: updated })
toggleFilter(prev, column, value) ==
    LET current == IF column \in DOMAIN prev THEN prev[column] ELSE <<>>
        Other(v) == v # value
        updated == IF InSeq(current, value) THEN SelectSeq(current, Other)
                   ELSE Append(current, value)
    IN [c \in (DOMAIN prev) \cup {column} |->
          IF c = column THEN (IF Len(updated) > 0 THEN updated ELSE <<>>) ELSE prev[c]]

\* ---------------------------------------------------------------- row filter

\* A filter that passes a row when some column accepts it
matchesFiltersSome(row, f) ==
    \E col \in DOMAIN f :
        IF Len(f[col]) = 0 THEN TRUE ELSE InSeq(f[col], String(Get(row, col)))

\* Object.entries(filters).every(([col, vals]) => ...)
matchesFilters(row, f) ==
    \A col \in DOMAIN f :
        IF Len(f[col]) = 0 THEN TRUE ELSE InSeq(f[col], String(Get(row, col)))

\* searchTerm === '' || data.headers.some(h => String(row[h]).toLowerCase()
\*                                               .includes(searchTerm.toLowerCase()))
matchesSearch(row, headers, term) ==
    \/ term = <<>>
    \/ \E i \in 1..Len(headers) :
          includes(toLowerCase(String(Get(row, headers[i]))), toLowerCase(term))

\* A filter that collects the passing rows last to first
filterRowsReversed(d, f, term) ==
    LET Keep(row) == matchesFilters(row, f) /\ matchesSearch(row, d.headers, term)
        kept == SelectSeq(d.rows, Keep)
    IN [i \in 1..Len(kept) |-> kept[Len(kept) + 1 - i]]

\* data.rows.filter(row => matchesFilters && matchesSearch)
filterRows(d, f, term) ==
    LET Keep(row) == matchesFilters(row, f) /\ matchesSearch(row, d.headers, term)
    IN SelectSeq(d.rows, Keep)

\* ------------------------------------------------------------ KPI aggregator

\* A pass that reads the spend from the revenue column
statsStepSpendFromRevenue(acc, row, kFat, kGas, kRoas) ==
    LET f == NumberOrZero(Get(row, kFat))
        r == Number(Get(row, kRoas))
        counted == ~isNaN(r) /\ Get(row, kRoas) # Str(<<>>)
    IN [fat |-> acc.fat + f,
        gas |-> acc.gas + f,
        roasSum |-> IF counted THEN acc.roasSum + r.n ELSE acc.roasSum,
        roasCount |-> IF counted THEN acc.roasCount + 1 ELSE acc.roasCount]

\* A pass without the empty-string guard of the ROAS average
statsStepCountingEmpty(acc, row, kFat, kGas, kRoas) ==
    LET f == NumberOrZero(Get(row, kFat))
        g == NumberOrZero(Get(row, kGas))
        r == Number(Get(row, kRoas))
        counted == ~isNaN(r)
    IN [fat |-> acc.fat + f,
        gas |-> acc.gas + g,
        roasSum |-> IF counted THEN acc.roasSum + r.n ELSE acc.roasSum,
        roasCount |-> IF counted THEN acc.roasCount + 1 ELSE acc.roasCount]

\* One pass of filteredRows.forEach over the accumulators fat, gas, roasSum, roasCount
statsStep(acc, row, kFat, kGas, kRoas) ==
    LET f == NumberOrZero(Get(row, kFat))
        g == NumberOrZero(Get(row, kGas))
        r == Number(Get(row, kRoas))
        counted == ~isNaN(r) /\ Get(row, kRoas) # Str(<<>>)
    IN [fat |-> acc.fat + f,
        gas |-> acc.gas + g,
        roasSum |-> IF counted THEN acc.roasSum + r.n ELSE acc.roasSum,
        roasCount |-> IF counted THEN acc.roasCount + 1 ELSE acc.roasCount]

RECURSIVE statsLoop(_, _, _, _, _, _)
statsLoop(rows, i, acc, kFat, kGas, kRoas) ==
    IF i > Len(rows) THEN acc
    ELSE statsLoop(rows, i + 1, statsStep(acc, rows[i], kFat, kGas, kRoas), kFat, kGas, kRoas)

\* An average that is 0 whenever no row was counted
avgRoasZeroFallback(acc) ==
    IF acc.roasCount > 0 THEN Rat(acc.roasSum, acc.roasCount) ELSE RatInt(0)

\* roasCount > 0 ? roasSum / roasCount : (gas > 0 ? fat / gas : 0)
avgRoas(acc) ==
    IF acc.roasCount > 0 THEN Rat(acc.roasSum, acc.roasCount)
    ELSE IF acc.gas > 0 THEN Rat(acc.fat, acc.gas)
    ELSE RatInt(0)

\* imp = fat * 0.06
taxOf(fat) == RatMul(RatInt(fat), TaxRate)

\* A profit that adds the tax
profitOfTaxAdded(fat, gas, imp) == RatSub(RatInt(fat), RatSub(RatInt(gas), imp))

\* luc = fat - gas - imp
profitOf(fat, gas, imp) == RatSub(RatSub(RatInt(fat), RatInt(gas)), imp)

computeStats(dv, rows) ==
    LET acc == statsLoop(rows, 1, [fat |-> 0, gas |-> 0, roasSum |-> 0, roasCount |-> 0],
                         KeyOrEmpty(dv.colFaturamento), KeyOrEmpty(dv.colGastos),
                         KeyOrEmpty(dv.colRoas))
        imp == taxOf(acc.fat)
    IN [fat |-> RatInt(acc.fat), gas |-> RatInt(acc.gas), imp |-> imp,
        luc |-> profitOf(acc.fat, acc.gas, imp), roas |-> avgRoas(acc)]

\* x.toFixed(1): the tenth nearest to x, the one of larger magnitude when two
\* are equally near (the KPIs of the model are exact, so a tie is decided on
\* the exact value)
toFixed1(x) ==
    LET a == Abs(x.num) * 10
        q == (2 * a + x.den) \div (2 * x.den)
    IN Rat((IF x.num < 0 THEN -1 ELSE 1) * q, 10)

\* A margin card that guards against a zero revenue only
marginShownNonZeroGuard(st) ==
    IF st.fat.num # 0 THEN toFixed1(RatMul(RatDiv(st.luc, st.fat), RatInt(100)))
    ELSE RatInt(0)

\* {stats.fat > 0 ? ((stats.luc / stats.fat) * 100).toFixed(1) : 0}%
marginShown(st) ==
    IF st.fat.num > 0 THEN toFixed1(RatMul(RatDiv(st.luc, st.fat), RatInt(100)))
    ELSE RatInt(0)

\* ---------------------------------------------------------- chart aggregator

\* The two shipped copies of the component
Copies == {"components/Dashboard.tsx", "unnamed/part_000"}

\* The label that replaces an empty grouping key
Placeholder(c) == IF c = "components/Dashboard.tsx" THEN <<"O", "u", "t", "r", "o", "s">> ELSE <<"N", "/", "A">>

\* The most groups the chart shows
TopN == 15

\* String(row[chartCat]) || placeholder
groupKey(c, row, cat) ==
    IF String(Get(row, cat)) = <<>> THEN Placeholder(c) ELSE String(Get(row, cat))

\* An aggregation that keeps the last value of a group
addToGroupOverwrite(agg, k, v) ==
    IF \E i \in 1..Len(agg) : agg[i].name = k
    THEN [i \in 1..Len(agg) |-> IF agg[i].name = k THEN [name |-> k, value |-> v] ELSE agg[i]]
    ELSE Append(agg, [name |-> k, value |-> v])

\* aggregated[k] = (aggregated[k] || 0) + v, the object kept as the sequence of
\* its properties in creation order
addToGroup(agg, k, v) ==
    IF \E i \in 1..Len(agg) : agg[i].name = k
    THEN [i \in 1..Len(agg) |->
            IF agg[i].name = k THEN [name |-> k, value |-> agg[i].value + v] ELSE agg[i]]
    ELSE Append(agg, [name |-> k, value |-> v])

RECURSIVE aggregate(_, _, _, _, _, _)
aggregate(c, rows, i, agg, cat, met) ==
    IF i > Len(rows) THEN agg
    ELSE aggregate(c, rows, i + 1,
                   addToGroup(agg, groupKey(c, rows[i], cat), NumberOrZero(Get(rows[i], met))),
                   cat, met)

\* Canonical integers compared by value: by length, then digit by digit
IndexLess(a, b) == Len(a) < Len(b) \/ (Len(a) = Len(b) /\ StrLess(a, b))

\* A property key that is an array index: a canonical integer below 2^32 - 1
IsArrayIndex(k) ==
    /\ IsDigits(k)
    /\ (Len(k) = 1 \/ k[1] # "0")
    /\ IndexLess(k, <<"4", "2", "9", "4", "9", "6", "7", "2", "9", "5">>)

RECURSIVE InsertByIndex(_, _)
InsertByIndex(sorted, e) ==
    IF sorted = <<>> THEN <<e>>
    ELSE IF IndexLess(e.name, Head(sorted).name) THEN <<e>> \o sorted
    ELSE <<Head(sorted)>> \o InsertByIndex(Tail(sorted), e)

RECURSIVE SortByIndex(_)
SortByIndex(seq) ==
    IF seq = <<>> THEN <<>>
    ELSE InsertByIndex(SortByIndex(SubSeq(seq, 1, Len(seq) - 1)), seq[Len(seq)])

\* Object.entries(aggregated): array-index keys ascending, then the other keys
\* in creation order
objectEntries(agg) ==
    LET IsIdx(e) == IsArrayIndex(e.name)
        NotIdx(e) == ~IsArrayIndex(e.name)
    IN SortByIndex(SelectSeq(agg, IsIdx)) \o SelectSeq(agg, NotIdx)

\* One insertion of the stable sort by (a, b) => b.value - a.value: e goes
\* behind every entry whose value is not smaller
RECURSIVE InsertByValue(_, _)
InsertByValue(sorted, e) ==
    IF sorted = <<>> THEN <<e>>
    ELSE IF Head(sorted).value < e.value THEN <<e>> \o sorted
    ELSE <<Head(sorted)>> \o InsertByValue(Tail(sorted), e)

\* A sort by (a, b) => a.value - b.value
RECURSIVE InsertByValueAscending(_, _)
InsertByValueAscending(sorted, e) ==
    IF sorted = <<>> THEN <<e>>
    ELSE IF e.value < Head(sorted).value THEN <<e>> \o sorted
    ELSE <<Head(sorted)>> \o InsertByValueAscending(Tail(sorted), e)

RECURSIVE sortByValueAscending(_)
sortByValueAscending(seq) ==
    IF seq = <<>> THEN <<>>
    ELSE InsertByValueAscending(sortByValueAscending(SubSeq(seq, 1, Len(seq) - 1)),
                                seq[Len(seq)])

RECURSIVE sortByValue(_)
sortByValue(seq) ==
    IF seq = <<>> THEN <<>>
    ELSE InsertByValue(sortByValue(SubSeq(seq, 1, Len(seq) - 1)), seq[Len(seq)])

\* .slice(0, n)
slice(seq, n) == SubSeq(seq, 1, IF Len(seq) < n THEN Len(seq) ELSE n)

\* The groups before ranking and truncation
chartGroups(c, rows, cat, met) == objectEntries(aggregate(c, rows, 1, <<>>, cat, met))

\* A chart aggregator without the guard on the axes
computeChartDataUnguarded(c, rows, cat, met) ==
    slice(sortByValue(chartGroups(c, rows, cat, met)), TopN)

\* if (!chartCat || !chartMet) return []; ...sort(...).slice(0, 15)
computeChartData(c, rows, cat, met) ==
    IF cat = <<>> \/ met = <<>> THEN <<>>
    ELSE slice(sortByValue(chartGroups(c, rows, cat, met)), TopN)

\* a || b || c || '' over optional strings
FirstTruthy(cands) ==
    LET Truthy(v) == v.t = "string" /\ v.s # <<>>
        kept == SelectSeq(cands, Truthy)
    IN IF kept = <<>> THEN <<>> ELSE Head(kept).s

\* headers[0]
FirstOf(headers) == IF headers = <<>> THEN Undefined ELSE Str(Head(headers))

\* The values the component body derives from the data prop alone
deriveColumns(d) ==
    [colFaturamento |-> colFaturamento(d),
     colGastos |-> colGastos(d),
     colRoas |-> colRoas(d),
     colData |-> colData(d),
     colAnuncio |-> colAnuncio(d),
     filterableColumns |-> filterableColumns(d),
     uniqueValuesMap |-> uniqueValuesMap(d),
     categoricalHeaders |-> categoricalHeaders(d),
     metricHeaders |-> metricHeaders(d)]

\* useState(colAnuncio || colData || categoricalHeaders[0] || '')
initialChartCat(dv) ==
    FirstTruthy(<<dv.colAnuncio, dv.colData, FirstOf(dv.categoricalHeaders)>>)

\* useState(colRoas || colFaturamento || metricHeaders[0] || '')
initialChartMet(dv) ==
    FirstTruthy(<<dv.colRoas, dv.colFaturamento, FirstOf(dv.metricHeaders)>>)

\* ------------------------------------------------------------------ datasets

\* The most rows of a dataset drawn from RowPool
MaxRows == 2

HData == <<"D", "a", "t", "a">>
HNome == <<"N", "o", "m", "e", " ", "d", "o", " ", "A", "d">>
HFaturamento == <<"F", "a", "t", "u", "r", "a", "m", "e", "n", "t", "o">>
HGastos == <<"G", "a", "s", "t", "o", "s">>
HRoas == <<"R", "O", "A", "S">>
HStatus == <<"S", "t", "a", "t", "u", "s">>
HProduto == <<"P", "r", "o", "d", "u", "t", "o">>
HValor == <<"V", "a", "l", "o", "r">>
HReceita == <<"R", "e", "c", "e", "i", "t", "a">>
HCusto == <<"C", "u", "s", "t", "o">>
HPeriodo == <<"P", "e", "r", "i", "o", "d", "o">>

\* Rows with a numeric, a non-numeric, an empty, a negative, a zero and a
\* missing value, and names that differ in case only
RowPool ==
    << (HNome :> Str(<<"A">>)) @@ (HFaturamento :> Num(1000)) @@ (HGastos :> Num(200))
          @@ (HRoas :> Num(5)),
       (HNome :> Str(<<"a">>)) @@ (HFaturamento :> Str(<<"a", "b", "c">>)) @@ (HGastos :> Str(<<>>))
          @@ (HRoas :> Str(<<>>)),
       (HNome :> Str(<<>>)) @@ (HFaturamento :> Num(-300)) @@ (HGastos :> Num(0))
          @@ (HRoas :> Str(<<"2">>)),
       (HFaturamento :> Num(500)) @@ (HGastos :> Num(100)) >>

\* Every sequence of at most MaxRows rows of RowPool, repetitions included
PoolDatasets ==
    { [headers |-> <<HNome, HFaturamento, HGastos, HRoas>>,
       rows |-> [i \in DOMAIN pick |-> RowPool[pick[i]]],
       types |-> (HNome :> "string") @@ (HFaturamento :> "number")] :
      pick \in UNION { [1..n -> 1..Len(RowPool)] : n \in 0..MaxRows } }

\* The dataset of the specification's examples
ExampleDataset ==
    [headers |-> <<HData, HNome, HFaturamento, HGastos, HRoas>>,
     rows |-> << (HData :> Str(<<"0", "1", "/", "0", "1">>)) @@ (HNome :> Str(<<"A">>))
                    @@ (HFaturamento :> Num(1000)) @@ (HGastos :> Num(200))
                    @@ (HRoas :> Num(5)),
                 (HData :> Str(<<"0", "2", "/", "0", "1">>)) @@ (HNome :> Str(<<"B">>))
                    @@ (HFaturamento :> Num(500)) @@ (HGastos :> Num(100))
                    @@ (HRoas :> Num(5)) >>,
     types |-> (HData :> "string") @@ (HNome :> "string") @@ (HFaturamento :> "number")
                  @@ (HGastos :> "number") @@ (HRoas :> "number")]

\* More groups than the chart shows: one product per row, values with ties
WideRows == TopN + 2

WideDataset ==
    [headers |-> <<HStatus, HProduto, HValor>>,
     rows |-> [i \in 1..WideRows |->
                 (HStatus :> Str(IF i % 2 = 0 THEN <<"o", "n">> ELSE <<"o", "f", "f">>))
                    @@ (HProduto :> Str(<<LowerChars[i]>>))
                    @@ (HValor :> Num(((i * 3) % 7) - 1))],
     types |-> (HProduto :> "string") @@ (HValor :> "number")]

\* No ROAS column and no category axis; a numeric text, a non-numeric text
\* and a missing value
NoRoasDataset ==
    [headers |-> <<HStatus, HReceita, HCusto>>,
     rows |-> << (HStatus :> Str(<<"o", "n">>)) @@ (HReceita :> Num(300)) @@ (HCusto :> Num(100)),
                 (HStatus :> Str(<<"o", "f", "f">>)) @@ (HReceita :> Str(<<"-", "5", "0">>)) @@ (HCusto :> Num(0)),
                 (HStatus :> Num(5)) @@ (HReceita :> Str(<<"a", "b", "c">>)) >>,
     types |-> (HReceita :> "number")]

\* No revenue, spend or ROAS column and no metric axis
NoMetricDataset ==
    [headers |-> <<HPeriodo, HValor>>,
     rows |-> << (HPeriodo :> Str(<<"0", "1", "/", "0", "1">>)) @@ (HValor :> Num(7)),
                 (HPeriodo :> Str(<<>>)) @@ (HValor :> Num(3)) >>,
     types |-> <<>>]

\* Texts that read like what the component writes itself: the text
\* "undefined" next to a missing field, and both placeholder labels next to
\* an empty category
LiteralsDataset ==
    [headers |-> <<HStatus, HProduto, HValor>>,
     rows |-> << (HStatus :> Str(<<"u", "n", "d", "e", "f", "i", "n", "e", "d">>)) @@ (HProduto :> Str(<<>>))
                    @@ (HValor :> Num(1)),
                 (HProduto :> Str(<<"N", "/", "A">>)) @@ (HValor :> Num(2)),
                 (HStatus :> Str(<<"o", "k">>)) @@ (HProduto :> Str(<<"O", "u", "t", "r", "o", "s">>))
                    @@ (HValor :> Num(4)) >>,
     types |-> (HProduto :> "string") @@ (HValor :> "number")]

Datasets ==
    PoolDatasets
       \cup {ExampleDataset, WideDataset, NoRoasDataset, NoMetricDataset, LiteralsDataset}

\* What the user types into the search box: a lower-case and an upper-case
\* term, and a digit
SearchTerms == {<<>>, <<"a">>, <<"U", "N">>, <<"5">>}

\* -------------------------------------------------------------- the component

VARIABLES
    data,          \* the data prop: [headers, rows, types]
    copy,          \* which of the two shipped copies is mounted
    derived,       \* what the component body derives from data, which never changes
    activeTab,     \* "visual" or "table"
    filters,       \* column -> array of the selected values
    searchTerm,
    chartCat,      \* the category axis, <<>> when unset
    chartMet,      \* the metric axis, <<>> when unset
    filteredRows,  \* the memoized values of the last render
    stats,
    chartData,
    lastOp,        \* the handler that ran last
    keys,          \* the keyword list given to the column classifier
    found          \* its result

vars == <<data, copy, derived, activeTab, filters, searchTerm, chartCat, chartMet,
          filteredRows, stats, chartData, lastOp, keys, found>>

\* The render that follows a state change: the three useMemo values
Render ==
    /\ filteredRows' = filterRows(data, filters', searchTerm')
    /\ stats' = computeStats(derived, filteredRows')
    /\ chartData' = computeChartData(copy, filteredRows', chartCat', chartMet')

\* The first render
Mount(d, c) ==
    /\ data = d
    /\ copy = c
    /\ derived = deriveColumns(d)
    /\ activeTab = "visual"
    /\ filters = NoFilters
    /\ searchTerm = <<>>
    /\ chartCat = initialChartCat(derived)
    /\ chartMet = initialChartMet(derived)
    /\ filteredRows = filterRows(data, filters, searchTerm)
    /\ stats = computeStats(derived, filteredRows)
    /\ chartData = computeChartData(copy, filteredRows, chartCat, chartMet)
    /\ lastOp = "mount"

Init ==
    /\ \E d \in Datasets, c \in Copies : Mount(d, c)
    /\ keys = <<>>
    /\ found = Undefined

\* A click on one of the value buttons of a filterable column
ToggleFilter ==
    /\ \E col \in DOMAIN derived.uniqueValuesMap :
          \E i \in 1..Len(derived.uniqueValuesMap[col]) :
             filters' = toggleFilter(filters, col, derived.uniqueValuesMap[col][i])
    /\ lastOp' = "toggleFilter"
    /\ UNCHANGED <<data, copy, derived, activeTab, searchTerm, chartCat, chartMet,
                   keys, found>>
    /\ Render

\* A clear that resets the filters and leaves the search term
ClearAllFiltersKeepingSearch ==
    /\ filters' = NoFilters
    /\ lastOp' = "clearAllFilters"
    /\ UNCHANGED <<data, copy, derived, activeTab, searchTerm, chartCat, chartMet,
                   keys, found>>
    /\ Render

\* clearAllFilters: setFilters({}); setSearchTerm('')
ClearAllFilters ==
    /\ filters' = NoFilters
    /\ searchTerm' = <<>>
    /\ lastOp' = "clearAllFilters"
    /\ UNCHANGED <<data, copy, derived, activeTab, chartCat, chartMet, keys, found>>
    /\ Render

\* onChange of the search box
SetSearchTerm ==
    /\ \E term \in SearchTerms : searchTerm' = term
    /\ lastOp' = "setSearchTerm"
    /\ UNCHANGED <<data, copy, derived, activeTab, filters, chartCat, chartMet,
                   keys, found>>
    /\ Render

\* A click on one of the two tab buttons
SetActiveTab ==
    /\ \E tab \in {"visual", "table"} : activeTab' = tab
    /\ lastOp' = "setActiveTab"
    /\ UNCHANGED <<data, copy, derived, filters, searchTerm, chartCat, chartMet,
                   keys, found>>
    /\ Render

\* onChange of the category select, which the visual tab shows
SetChartCat ==
    /\ activeTab = "visual"
    /\ \E i \in 1..Len(derived.categoricalHeaders) :
          chartCat' = derived.categoricalHeaders[i]
    /\ lastOp' = "setChartCat"
    /\ UNCHANGED <<data, copy, derived, activeTab, filters, searchTerm, chartMet,
                   keys, found>>
    /\ Render

\* onChange of the metric select, which the visual tab shows
SetChartMet ==
    /\ activeTab = "visual"
    /\ \E i \in 1..Len(derived.metricHeaders) :
          chartMet' = derived.metricHeaders[i]
    /\ lastOp' = "setChartMet"
    /\ UNCHANGED <<data, copy, derived, activeTab, filters, searchTerm, chartCat,
                   keys, found>>
    /\ Render

Next ==
    \/ ToggleFilter
    \/ ClearAllFilters
    \/ SetSearchTerm
    \/ SetActiveTab
    \/ SetChartCat
    \/ SetChartMet

Spec == Init /\ [][Next]_vars

\* ----------------------------------------------- the classifier on its own

\* The longest header list and keyword list given to the classifier
MaxHeaders == 2
MaxKeys == 2

\* Texts that equal, contain and differ from one another, in both cases
FindStrings == {<<>>, <<"a">>, <<"A">>, <<"b">>, <<"a", "b">>, <<"B", "a">>}

SeqsUpTo(S, n) == UNION { [1..k -> S] : k \in 0..n }

InitFind ==
    /\ \E hs \in SeqsUpTo(FindStrings, MaxHeaders) :
          Mount([headers |-> hs, rows |-> <<>>, types |-> <<>>], "components/Dashboard.tsx")
    /\ keys \in SeqsUpTo(FindStrings, MaxKeys)
    /\ found = Undefined

\* One call findHeader(keys) of the component body
FindHeader ==
    /\ lastOp = "mount"
    /\ found' = findHeader(data.headers, keys)
    /\ lastOp' = "findHeader"
    /\ UNCHANGED <<data, copy, derived, activeTab, filters, searchTerm, chartCat,
                   chartMet, filteredRows, stats, chartData, keys>>

NextFind == FindHeader

SpecFind == InitFind /\ [][NextFind]_vars

\* ------------------------------------------------------------------- claims

Range(seq) == {seq[i] : i \in 1..Len(seq)}

Count(seq, x) == Cardinality({i \in 1..Len(seq) : seq[i] = x})

\* sub[i..] can be read off seq[j..] from left to right, skipping elements
RECURSIVE IsSubsequenceFrom(_, _, _, _)
IsSubsequenceFrom(sub, i, seq, j) ==
    IF i > Len(sub) THEN TRUE
    ELSE IF j > Len(seq) THEN FALSE
    ELSE IF sub[i] = seq[j] THEN IsSubsequenceFrom(sub, i + 1, seq, j + 1)
    ELSE IsSubsequenceFrom(sub, i, seq, j + 1)

\* C1: in every reachable state filteredRows is a subsequence of the dataset's
\* rows: each of its elements is a row of the dataset, no row appears more
\* often than in the dataset, and the rows keep their relative order.
C1_FilteredRowsIsSubsequence ==
    /\ Range(filteredRows) \subseteq Range(data.rows)
    /\ \A r \in Range(filteredRows) : Count(filteredRows, r) <= Count(data.rows, r)
    /\ IsSubsequenceFrom(filteredRows, 1, data.rows, 1)

\* A filter has removed rows and has left at least two, behind one another
C1_Witness ==
    /\ lastOp = "toggleFilter"
    /\ Len(filteredRows) >= 2
    /\ Len(filteredRows) < Len(data.rows)
    /\ filteredRows[1] # filteredRows[2]

\* s contains sub when letter case is ignored
ContainsIgnoringCase(s, sub) ==
    \E off \in 0..(Len(s) - Len(sub)) :
        \A k \in 1..Len(sub) : toLowerChar(s[off + k]) = toLowerChar(sub[k])

\* (a) every column with a non-empty selection accepts the row's stringified value
AcceptedByColumns(row) ==
    \A col \in DOMAIN filters :
        filters[col] # <<>> => String(Get(row, col)) \in Range(filters[col])

\* (b) the search term is empty or a header's stringified value contains it
AcceptedBySearch(row) ==
    \/ searchTerm = <<>>
    \/ \E h \in Range(data.headers) : ContainsIgnoringCase(String(Get(row, h)), searchTerm)

\* C2: a row of the dataset is in filteredRows if and only if (a) every column
\* that the filter state maps to a non-empty set accepts the row's stringified
\* value and (b) the search term is empty or some header's stringified value
\* contains it case-insensitively.
C2_RowPassesIffFiltersAndSearch ==
    \A i \in 1..Len(data.rows) :
        (data.rows[i] \in Range(filteredRows))
            <=> (AcceptedByColumns(data.rows[i]) /\ AcceptedBySearch(data.rows[i]))

\* Two columns restrict the rows, one of them with two accepted values, a
\* search term is set, and some rows pass and some do not
C2_Witness ==
    /\ \E c1, c2 \in DOMAIN filters :
          c1 # c2 /\ Len(filters[c1]) >= 2 /\ Len(filters[c2]) >= 1
    /\ searchTerm # <<>>
    /\ filteredRows # <<>>
    /\ Len(filteredRows) < Len(data.rows)

\* C3: after clear-all-filters the filter state is empty, the search term is
\* empty and filteredRows is the full dataset in its original order.
C3_ClearAllRestoresAllRows ==
    lastOp = "clearAllFilters" =>
        /\ DOMAIN filters = {}
        /\ searchTerm = <<>>
        /\ filteredRows = data.rows

\* clear-all-filters has run on a dataset with rows
C3_Witness ==
    /\ lastOp = "clearAllFilters"
    /\ Len(data.rows) >= 2

\* The numeric value of a cell: 0 when it is missing or not numeric
NumericValue(cell) ==
    CASE cell.t = "number" -> cell.n
      [] cell.t = "string" /\ ~isNaN(StringToNumber(cell.s)) -> StringToNumber(cell.s).n
      [] OTHER -> 0

RECURSIVE SumSeq(_)
SumSeq(ints) == IF ints = <<>> THEN 0 ELSE Head(ints) + SumSeq(Tail(ints))

\* The sum of a role's column over rows; 0 when the role is unmapped
RoleSum(rows, col) ==
    IF col = Undefined THEN 0
    ELSE SumSeq([i \in 1..Len(rows) |-> NumericValue(Get(rows[i], col.s))])

C5_TaxAndProfitBalance ==
    /\ RatMul(stats.imp, RatInt(100)) = RatMul(stats.fat, RatInt(6))
    /\ RatSub(RatSub(RatSub(stats.fat, stats.gas), stats.imp), stats.luc) = RatInt(0)

\* A negative revenue with a zero spend
C5_Witness ==
    /\ stats.fat.num < 0
    /\ stats.gas.num = 0
    /\ filteredRows # <<>>

\* The rows whose ROAS field is present, is not the empty string and is numeric
RoasRows(rows, col) ==
    LET Valid(row) == /\ Get(row, col) # Undefined
                      /\ Get(row, col) # Str(<<>>)
                      /\ ~isNaN(Number(Get(row, col)))
    IN SelectSeq(rows, Valid)

ComputedGroups == chartGroups(copy, filteredRows, chartCat, chartMet)

\* C7: chartData has at most 15 entries, is sorted non-increasing by value, and
\* every computed group that is not in chartData has a value less than or equal
\* to the value of every entry of chartData.
C7_ChartIsTopFifteen ==
    /\ Len(chartData) <= 15
    /\ \A i \in 1..Len(chartData) : \A j \in 1..Len(chartData) :
          i < j => chartData[i].value >= chartData[j].value
    /\ (chartCat # <<>> /\ chartMet # <<>>) =>
          \A g \in Range(ComputedGroups) :
              g \notin Range(chartData) =>
                  \A e \in Range(chartData) : g.value <= e.value

\* More than 15 groups were computed, and their values differ
C7_Witness ==
    /\ Len(ComputedGroups) > 15
    /\ Len(chartData) = 15
    /\ chartData[1].value > chartData[15].value
    /\ \E g \in Range(ComputedGroups) : g \notin Range(chartData)

\* The grouping key of a row: its stringified category value, or the
\* placeholder label when that is empty
KeyOfRow(row) ==
    IF String(Get(row, chartCat)) = <<>> THEN Placeholder(copy)
    ELSE String(Get(row, chartCat))

\* C8: with both chart axes set, the computed groups have pairwise distinct
\* names, each group's value is the sum of the metric column's numeric value
\* over exactly the filtered rows of that name, rows with an empty category
\* key are grouped under the placeholder label, and no returned point has an
\* empty name.
C8_GroupsAreSumsByName ==
    (chartCat # <<>> /\ chartMet # <<>>) =>
        /\ \A i, j \in 1..Len(ComputedGroups) :
              i # j => ComputedGroups[i].name # ComputedGroups[j].name
        /\ \A g \in Range(ComputedGroups) :
              LET Mine(row) == KeyOfRow(row) = g.name
                  mine == SelectSeq(filteredRows, Mine)
              IN /\ mine # <<>>
                 /\ g.value = SumSeq([i \in 1..Len(mine) |->
                                        NumericValue(Get(mine[i], chartMet))])
        /\ \A r \in Range(filteredRows) :
              \E g \in Range(ComputedGroups) :
                  g.name = KeyOfRow(r)
                     /\ (String(Get(r, chartCat)) = <<>> => g.name = Placeholder(copy))
        /\ \A e \in Range(chartData) : e.name # <<>> /\ e \in Range(ComputedGroups)
        /\ Len(ComputedGroups) <= TopN => Range(chartData) = Range(ComputedGroups)

\* A group of two rows next to the group of the rows with an empty key
C8_Witness ==
    /\ chartCat # <<>>
    /\ chartMet # <<>>
    /\ \E r \in Range(filteredRows) : String(Get(r, chartCat)) = <<>>
    /\ \E e \in Range(chartData) : e.name = Placeholder(copy) /\ e.value # 0
    /\ \E e \in Range(chartData) :
          Cardinality({i \in 1..Len(filteredRows) : KeyOfRow(filteredRows[i]) = e.name}) >= 2

\* A number of the model that is defined: a quotient with a non-zero divisor
IsNumber(x) == x.num \in Int /\ x.den \in Int /\ x.den > 0

\* C10: every operation yields values: filteredRows is a sequence of rows of
\* the dataset, the five KPIs are numbers, chartData is a sequence of named
\* integer sums, and chartData is empty whenever the category axis or the
\* metric axis is unset.
C10_EveryResultIsAValue ==
    /\ \A i \in 1..Len(filteredRows) : filteredRows[i] \in Range(data.rows)
    /\ IsNumber(stats.fat) /\ IsNumber(stats.gas) /\ IsNumber(stats.imp)
    /\ IsNumber(stats.luc) /\ IsNumber(stats.roas)
    /\ \A i \in 1..Len(chartData) :
          chartData[i].value \in Int /\ chartData[i].name \in Seq(DOMAIN CharCodes)
    /\ (chartCat = <<>> \/ chartMet = <<>>) => chartData = <<>>

\* An axis is unset, a role is unmapped, a row lacks a field and another holds
\* a non-numeric value, after a filter and a search
C10_Witness ==
    /\ chartCat = <<>>
    /\ chartMet # <<>>
    /\ derived.colRoas = Undefined
    /\ \E r \in Range(filteredRows) : DOMAIN r # Range(data.headers)
    /\ searchTerm # <<>>
    /\ \E col \in DOMAIN filters : filters[col] # <<>>

\* ----------------------------------------------------- claims, the classifier

\* h equals or contains keyword k once both are lower-cased
HeaderMatches(h, k) ==
    \/ toLowerCase(h) = toLowerCase(k)
    \/ \E off \in 0..(Len(h) - Len(k)) :
          \A n \in 1..Len(k) : toLowerChar(h[off + n]) = toLowerChar(k[n])

MatchesSomeKey(h) == \E j \in 1..Len(keys) : HeaderMatches(h, keys[j])

\* C9: the classifier returns the first header in dataset order that equals or
\* contains, lower-cased, at least one keyword, and returns absent exactly when
\* no header matches any keyword.
C9_FirstMatchingHeaderWins ==
    lastOp = "findHeader" =>
        IF \E i \in 1..Len(data.headers) : MatchesSomeKey(data.headers[i])
        THEN \E i \in 1..Len(data.headers) :
                /\ MatchesSomeKey(data.headers[i])
                /\ \A p \in 1..(i - 1) : ~MatchesSomeKey(data.headers[p])
                /\ found = Str(data.headers[i])
        ELSE found = Undefined

\* The first header matches the second keyword only, a later and different
\* header matches the first keyword, and the first header is returned
C9_Witness ==
    /\ lastOp = "findHeader"
    /\ Len(data.headers) = 2
    /\ Len(keys) = 2
    /\ data.headers[1] # data.headers[2]
    /\ ~HeaderMatches(data.headers[1], keys[1])
    /\ HeaderMatches(data.headers[1], keys[2])
    /\ HeaderMatches(data.headers[2], keys[1])
    /\ found = Str(data.headers[1])

\* --------------------------------------------------- claims, the operations

\* The selection of a column: the empty array when the filters hold no such key
Selection(f, c) == IF c \in DOMAIN f THEN f[c] ELSE <<>>

\* C11: toggle-filter changes the selection of one column only and leaves the
\* search term, the active tab and both chart axes unchanged; set-search,
\* set-tab and set-chart-axis leave the filter state unchanged (so only
\* toggle-filter and clear-all-filters change it); and no operation changes
\* the dataset's headers, rows or types.
C11_FrameOfTheOperations ==
    [][ /\ data' = data
        /\ lastOp' = "toggleFilter" =>
              /\ \E col \in Range(data.headers) :
                    \A c \in Range(data.headers) \ {col} :
                        Selection(filters', c) = Selection(filters, c)
              /\ DOMAIN filters' \subseteq Range(data.headers)
              /\ searchTerm' = searchTerm
              /\ activeTab' = activeTab
              /\ chartCat' = chartCat
              /\ chartMet' = chartMet
        /\ lastOp' \in {"setSearchTerm", "setActiveTab", "setChartCat", "setChartMet"} =>
              filters' = filters
        /\ filters' # filters => lastOp' \in {"toggleFilter", "clearAllFilters"}
      ]_vars

\* A toggle has run while another column held a selection, a search term was
\* set and the table tab was open
C11_Witness ==
    /\ lastOp = "toggleFilter"
    /\ \E c1, c2 \in DOMAIN filters : c1 # c2 /\ filters[c1] # <<>> /\ filters[c2] # <<>>
    /\ searchTerm # <<>>
    /\ activeTab = "table"


\* --------------------------------------------------- claims, the margin card

RatLeq(a, b) == a.num * b.den <= b.num * a.den
RatAbs(a) == [num |-> Abs(a.num), den |-> a.den]

\* profit / revenue * 100 of the current KPIs, for a revenue other than zero
ExactMargin == RatMul(RatDiv(stats.luc, stats.fat), RatInt(100))

\* m is a number of tenths at most half a tenth away from x
IsRoundedToTenth(m, x) ==
    /\ 10 % m.den = 0
    /\ RatLeq(RatAbs(RatSub(m, x)), Rat(1, 20))

\* C12: the margin shown on the profit card is profit/revenue*100 to one
\* decimal place when the revenue KPI is positive, and is 0 when the revenue
\* KPI is zero or negative.
C12_MarginOfPositiveRevenue ==
    /\ stats.fat.num > 0 => IsRoundedToTenth(marginShown(stats), ExactMargin)
    /\ stats.fat.num <= 0 => marginShown(stats) = RatInt(0)

\* C12 as stated: the margin shown is profit/revenue*100 (allowing for the one
\* decimal place shown) for every revenue KPI other than zero, positive or
\* negative, and is 0 when the revenue KPI is zero.
C12_MarginOfNonZeroRevenue ==
    /\ stats.fat.num # 0 => IsRoundedToTenth(marginShown(stats), ExactMargin)
    /\ stats.fat.num = 0 => marginShown(stats) = RatInt(0)

C12_Witness ==
    /\ stats.fat.num < 0
    /\ stats.luc.num # 0
    /\ filteredRows # <<>>
    /\ marginShown(stats) = RatInt(0)

\* --------------------------------------------- claims, toggling a value twice

\* The filters after two clicks in succession on the same value of a column
ToggledTwice(col, val) == toggleFilter(toggleFilter(filters, col, val), col, val)

\* C13: from every reachable state, toggling the same offered (column, value)
\* twice in succession leaves every column with the same set of selected
\* values (a column left with an empty array selects nothing, as a column
\* without an entry does), and so gives the same filteredRows, KPIs and
\* chartData.
C13_ToggleTwiceRestores ==
    \A col \in DOMAIN derived.uniqueValuesMap :
       \A i \in 1..Len(derived.uniqueValuesMap[col]) :
          LET f2 == ToggledTwice(col, derived.uniqueValuesMap[col][i])
              rows2 == filterRows(data, f2, searchTerm)
          IN /\ \A c \in Range(data.headers) :
                   Range(Selection(f2, c)) = Range(Selection(filters, c))
             /\ rows2 = filteredRows
             /\ computeStats(derived, rows2) = stats
             /\ computeChartData(copy, rows2, chartCat, chartMet) = chartData

C13_Witness ==
    /\ lastOp = "toggleFilter"
    /\ \E col \in DOMAIN filters : filters[col] = <<>>
    /\ \E col \in DOMAIN filters : filters[col] # <<>>
    /\ Len(filteredRows) < Len(data.rows)

\* ------------------------------------------- claims, rows that lack a field

\* The headers for which the row holds a field
PresentHeaders(row) == Range(data.headers) \cap DOMAIN row

\* C14: under a non-empty search term every row of filteredRows holds a field,
\* under one of the headers, whose stringified value contains the term
\* case-insensitively; no row is selected through a field it lacks.
C14_SearchMatchesPresentValuesOnly ==
    searchTerm # <<>> =>
        \A i \in 1..Len(filteredRows) :
            \E h \in PresentHeaders(filteredRows[i]) :
                ContainsIgnoringCase(String(filteredRows[i][h]), searchTerm)

\* ------------------------------------- claims, the value lists and the filter

\* The filters select the one value val of column col and nothing else
OnlySelection(col, val) ==
    /\ Selection(filters, col) = <<val>>
    /\ \A c \in Range(data.headers) \ {col} : Selection(filters, c) = <<>>

\* The rows of the dataset that put val into the value list of column col
Contributors(col, val) ==
    LET Gave(row) == String(OrEmptyString(Get(row, col))) = val
    IN SelectSeq(data.rows, Gave)

\* C15: every value offered for a filterable column is non-empty and appears
\* once in its list, and when it is the only selection and the search term is
\* empty, filteredRows is non-empty and consists of exactly the rows that
\* contributed the value to the list.
C15_OfferedValueSelectsItsRows ==
    \A col \in DOMAIN derived.uniqueValuesMap :
       LET vals == derived.uniqueValuesMap[col]
       IN \A i \in 1..Len(vals) :
             /\ vals[i] # <<>>
             /\ \A j \in 1..Len(vals) : vals[j] = vals[i] => j = i
             /\ (searchTerm = <<>> /\ OnlySelection(col, vals[i])) =>
                   /\ filteredRows # <<>>
                   /\ filteredRows = Contributors(col, vals[i])

\* ------------------------------------------------- claims, the two copies

\* The chart of each copy for the current rows and axes; the filters, the search
\* term, the axes, filteredRows and the KPIs are computed by code that is the
\* same in both copies and do not depend on the copy
ChartOf(c) == computeChartData(c, filteredRows, chartCat, chartMet)

\* Two group names are the same, or are the placeholders of the two copies
SameUpToPlaceholder(n1, n2) ==
    \/ n1 = n2
    \/ n1 = Placeholder("components/Dashboard.tsx") /\ n2 = Placeholder("unnamed/part_000")

\* C16: in every step the charts of the two copies have the same number of
\* groups and the same values in the same order, and the names of their groups
\* differ at most in the placeholder of an empty category key; the chart in
\* the state is the chart of the mounted copy.
C16_CopiesAgreeUpToPlaceholder ==
    LET a == ChartOf("components/Dashboard.tsx")
        b == ChartOf("unnamed/part_000")
    IN /\ chartData = ChartOf(copy)
       /\ Len(a) = Len(b)
       /\ \A i \in 1..Len(a) :
             i <= Len(b) => /\ a[i].value = b[i].value
                            /\ SameUpToPlaceholder(a[i].name, b[i].name)

\* --------------------------------------------- claims, the ROAS fallback

\* A ROAS column is mapped and no filtered row holds a present, non-empty,
\* numeric ROAS
NoRoasCounted ==
    /\ derived.colRoas # Undefined
    /\ RoasRows(filteredRows, derived.colRoas.s) = <<>>

\* C17: avgROAS is a defined number in every reachable state, and when a ROAS
\* column is mapped but no row of filteredRows holds a present, non-empty,
\* numeric ROAS (filteredRows may be empty), avgROAS is revenue/spend when
\* spend > 0 and 0 otherwise.
C17_RoasFallback ==
    /\ IsNumber(stats.roas)
    /\ NoRoasCounted =>
          stats.roas = (IF stats.gas.num > 0 THEN RatDiv(stats.fat, stats.gas) ELSE RatInt(0))

C17_Witness ==
    /\ NoRoasCounted
    /\ filteredRows # <<>>
    /\ stats.gas.num > 0
    /\ stats.roas # RatInt(0)
====
